---- MODULE Spec2Model ----
(***************************************************************************)
(* RawArrayString<A>: a fixed-capacity inline UTF-8 string whose length is *)
(* not stored but recovered from the buffer by scanning for the first 0    *)
(* byte (src/src/raw_array_string.rs).                                     *)
(*                                                                         *)
(* A value is its buffer: a sequence of `cap` bytes (A::CAPACITY = cap).   *)
(* Bytes are integers 0..255; byte indices are 0-based as in the source,   *)
(* sequence positions are 1-based.  A store or load at an index >= cap is  *)
(* outside the buffer: it reaches the byte of memory next to the value,    *)
(* which the model keeps beside the value.  Bytes never written (the tail  *)
(* left by MaybeUninit::uninitialized) hold arbitrary values.              *)
(***************************************************************************)
EXTENDS Integers, Sequences, FiniteSets

\* Largest capacity A::CAPACITY explored.
MaxCap == 2

\* Longest argument text (in chars) explored.
MaxTextChars == 1

\* Longest byte string handed to the deserialization visitor explored.
MaxBytesLen == 2

\* The sentinel byte 0u8.
NUL == 0

\* The byte values explored: NUL, 'a', and the two bytes of U+00E9.
Byte == {NUL, 97, 195, 169}

VARIABLES cap, val, out, hist, last, acc

vars == <<cap, val, out, hist, last, acc>>

SeqsUpTo(S, n) == UNION {[1..k -> S] : k \in 0..n}

---------------------------------------------------------------------------
(* str::from_utf8: the UTF-8 well-formedness check of the standard library *)

IsCont(x) == x \in 128..191

\* The byte after lead byte b0: continuation, within the range b0 allows.
SecondOk(b0, b1) ==
    /\ IsCont(b1)
    /\ (b0 = 224 => b1 >= 160)
    /\ (b0 = 237 => b1 <= 159)
    /\ (b0 = 240 => b1 >= 144)
    /\ (b0 = 244 => b1 <= 143)

\* Width of the well-formed character starting at position i, 0 if none.
CharWidth(bs, i) ==
    LET b0 == bs[i]
        n == Len(bs)
    IN  IF b0 < 128 THEN 1
        ELSE IF b0 \in 194..223
             THEN IF i + 1 <= n /\ SecondOk(b0, bs[i + 1]) THEN 2 ELSE 0
        ELSE IF b0 \in 224..239
             THEN IF /\ i + 2 <= n
                     /\ SecondOk(b0, bs[i + 1])
                     /\ IsCont(bs[i + 2])
                  THEN 3 ELSE 0
        ELSE IF b0 \in 240..244
             THEN IF /\ i + 3 <= n
                     /\ SecondOk(b0, bs[i + 1])
                     /\ IsCont(bs[i + 2])
                     /\ IsCont(bs[i + 3])
                  THEN 4 ELSE 0
        ELSE 0

\* The position of the first character that is not well-formed, Len + 1 if
\* there is none.
RECURSIVE ValidUpTo(_, _)
ValidUpTo(bs, i) ==
    IF i > Len(bs) THEN i
    ELSE LET w == CharWidth(bs, i)
         IN  IF w = 0 THEN i ELSE ValidUpTo(bs, i + w)

from_utf8(bs) == ValidUpTo(bs, 1) > Len(bs)

\* How many bytes of the ill-formed character at position i the scan reads
\* before it gives up: the lead byte, then each following byte up to the
\* first that is missing or wrong.
ReadInBadChar(bs, i) ==
    LET b0 == bs[i]
        n == Len(bs)
        w == IF b0 \in 194..223 THEN 2
             ELSE IF b0 \in 224..239 THEN 3
             ELSE IF b0 \in 240..244 THEN 4 ELSE 1
    IN  IF w = 1 \/ i + 1 > n THEN 1
        ELSE IF ~SecondOk(b0, bs[i + 1]) \/ w = 2 \/ i + 2 > n THEN 2
        ELSE IF ~IsCont(bs[i + 2]) \/ w = 3 \/ i + 3 > n THEN 3
        ELSE 4

\* size_of::<usize>() of the targets a build can be for.
USIZE_BYTES == {2, 4, 8}

\* align_offset told the scan that no index is word-aligned (usize::MAX).
NoAlign == -1

\* v.as_ptr().align_offset(word): where the array lies relative to a word
\* boundary, or NoAlign.  It bears on the scan only when a block of two words
\* fits in bs (blocks_end > 0).
Aligns(bs, word) ==
    IF Len(bs) >= 2 * word THEN 0..(word - 1) \cup {NoAlign} ELSE {NoAlign}

\* Whether the block of two words at index i (0-based) is all ASCII.
BlockAscii(bs, i, word) ==
    \A k \in (i + 1)..(i + 2 * word) : bs[k] < 128

\* The index at which the word-wise skip over ASCII, started at i, stops.
RECURSIVE SkipBlocks(_, _, _)
SkipBlocks(bs, i, word) ==
    IF i + 2 * word <= Len(bs) /\ BlockAscii(bs, i, word)
    THEN SkipBlocks(bs, i + 2 * word, word)
    ELSE i

\* The index at which the byte-wise skip over ASCII, started at i, stops.
RECURSIVE SkipAscii(_, _)
SkipAscii(bs, i) ==
    IF i < Len(bs) /\ bs[i + 1] < 128 THEN SkipAscii(bs, i + 1) ELSE i

\* The indices (0-based) the scan of from_utf8 reads from index i on, until
\* the end of bs or the character it rejects: ASCII at a word-aligned index
\* is read in blocks of two words, everything else byte by byte.
RECURSIVE Utf8Reads(_, _, _, _)
Utf8Reads(bs, i, align, word) ==
    IF i >= Len(bs) THEN {}
    ELSE IF bs[i + 1] >= 128
    THEN LET w == CharWidth(bs, i + 1)
         IN  IF w = 0 THEN i..(i + ReadInBadChar(bs, i + 1) - 1)
             ELSE i..(i + w - 1) \cup Utf8Reads(bs, i + w, align, word)
    ELSE IF align # NoAlign /\ (i + word - align) % word = 0
    THEN LET j == SkipBlocks(bs, i, word)
             k == SkipAscii(bs, j)
         IN  i..(j - 1)
                 \cup (IF j + 2 * word <= Len(bs)
                       THEN j..(j + 2 * word - 1) ELSE {})
                 \cup {x \in j..k : x < Len(bs)}
                 \cup Utf8Reads(bs, k, align, word)
    ELSE {i} \cup Utf8Reads(bs, i + 1, align, word)

\* The encodings of one char, NUL (U+0000) among them.
Chars ==
    {c \in SeqsUpTo(Byte, 4) : Len(c) >= 1 /\ CharWidth(c, 1) = Len(c)}

\* The values of type &str of at most n chars: well-formed UTF-8.
RECURSIVE StrsUpTo(_)
StrsUpTo(n) ==
    IF n = 0 THEN {<<>>}
    ELSE LET shorter == StrsUpTo(n - 1)
         IN  shorter \cup {s \o c : s \in shorter, c \in Chars}

Texts == StrsUpTo(MaxTextChars)

NulFree(s) == \A i \in 1..Len(s) : s[i] # NUL

\* The values of type A = [u8; cap].
Arrays == [1..cap -> Byte]

---------------------------------------------------------------------------
(* Results *)

Ok(v) == [tag |-> "Ok", v |-> v]

Err(kind, e) == [tag |-> kind, v |-> e]

---------------------------------------------------------------------------
(* The operations of RawArrayString, on a buffer xs of cap bytes *)

capacity == cap

\* *ptr.offset(i) = b: the bytes of the value after the store.  A store at
\* an index that is not below the capacity changes none of them: it lands in
\* the memory next to the value (StoreOutside).
Store(xs, i, b) == IF i < Len(xs) THEN [xs EXCEPT ![i + 1] = b] ELSE xs

\* *ptr.offset(i) = b: the byte of the memory next to the value after the
\* store, o being that byte before it.
StoreOutside(i, b, o) == IF i < capacity THEN o ELSE b

\* *ptr.offset(i), o being the byte of the memory next to the value.
Load(xs, i, o) == IF i < Len(xs) THEN xs[i + 1] ELSE o

\* ptr::copy_nonoverlapping(s.as_ptr(), ptr.offset(at), s.len())
copy_nonoverlapping(xs, at, s) ==
    [i \in 1..Len(xs) |->
        IF i - 1 >= at /\ i - 1 < at + Len(s) THEN s[i - at] ELSE xs[i]]

\* MaybeUninitCopy::uninitialized(): the possible contents of a buffer no
\* one has written, each byte whatever the memory held.
uninitialized == [1..cap -> Byte]

\* new() without the store of 0u8 at byte 0.
new_unzeroed == uninitialized

\* The possible results of new(): byte 0 zeroed, the rest as found.
new == {Store(u, 0, NUL) : u \in uninitialized}

len(xs) ==
    IF \E i \in 1..Len(xs) : xs[i] = NUL
    THEN (CHOOSE i \in 1..Len(xs) :
              xs[i] = NUL /\ \A j \in 1..(i - 1) : xs[j] # NUL) - 1
    ELSE capacity

\* is_empty(), o being the byte of the memory next to the value.
is_empty(xs, o) == Load(xs, 0, o) = NUL

is_full(xs) == len(xs) = capacity

\* clear() without its store.
clear_no_store(xs) == xs

clear(xs) == Store(xs, 0, NUL)

\* try_push_str rejecting a text that fits exactly (>= for >).
try_push_str_off_by_one(xs, s) ==
    LET n == len(xs)
    IN  IF Len(s) >= capacity - n
        THEN [xs |-> xs, r |-> Err("CapacityError", s)]
        ELSE [xs |-> Store(copy_nonoverlapping(xs, n, s), n + Len(s), NUL),
              r |-> Ok(<<>>)]

\* try_push_str without the store of the sentinel after the copied bytes.
try_push_str_no_sentinel(xs, s) ==
    LET n == len(xs)
    IN  IF Len(s) > capacity - n
        THEN [xs |-> xs, r |-> Err("CapacityError", s)]
        ELSE [xs |-> copy_nonoverlapping(xs, n, s), r |-> Ok(<<>>)]

\* try_push_str putting s before the text held instead of after it.
try_push_str_prepend(xs, s) ==
    LET n == len(xs)
        moved == copy_nonoverlapping(copy_nonoverlapping(xs, 0, s), Len(s),
                                     SubSeq(xs, 1, n))
    IN  IF Len(s) > capacity - n
        THEN [xs |-> xs, r |-> Err("CapacityError", s)]
        ELSE IF Len(s) = capacity - n
        THEN [xs |-> moved, r |-> Ok(<<>>)]
        ELSE [xs |-> Store(moved, n + Len(s), NUL), r |-> Ok(<<>>)]

\* The buffer after the call and the Result returned.
try_push_str(xs, s) ==
    LET n == len(xs)
    IN  IF Len(s) > capacity - n
        THEN [xs |-> xs, r |-> Err("CapacityError", s)]
        ELSE IF Len(s) = capacity - n
        THEN [xs |-> copy_nonoverlapping(xs, n, s), r |-> Ok(<<>>)]
        ELSE [xs |-> Store(copy_nonoverlapping(xs, n, s), n + Len(s), NUL),
              r |-> Ok(<<>>)]

\* Whether push_str(s) panics (unwrap of the CapacityError).
push_str_panics(xs, s) == try_push_str(xs, s).r.tag # "Ok"

\* from(s), with nv the buffer new() returned.
from(nv, s) ==
    LET p == try_push_str(nv, s)
    IN  IF p.r.tag = "Ok" THEN Ok(p.xs) ELSE p.r

\* from_byte_string without the from_utf8 check.
from_byte_string_unchecked(b) == Ok(b)

from_byte_string(b) ==
    IF from_utf8(b) THEN Ok(b) ELSE Err("Utf8Error", <<>>)

\* Deref: the text view.
deref(xs) == SubSeq(xs, 1, len(xs))

\* DerefMut: the bytes a caller may edit in place, those of the view.
deref_mut(xs) == 1..len(xs)

\* u8::to_ascii_uppercase, u8::to_ascii_lowercase
to_ascii_uppercase(b) == IF b \in 97..122 THEN b - 32 ELSE b

to_ascii_lowercase(b) == IF b \in 65..90 THEN b + 32 ELSE b

\* str::is_char_boundary, at index k (0-based) of the view.
is_char_boundary(xs, k) ==
    \/ k = 0
    \/ k = len(xs)
    \/ k < len(xs) /\ ~IsCont(xs[k + 1])

\* The in-place edits safe code can make through the &mut str of deref_mut:
\* get_mut(lo..hi), then str::make_ascii_uppercase or
\* str::make_ascii_lowercase on the part (the whole view is 0..len()).
Edits(xs) ==
    [method : {"make_ascii_uppercase", "make_ascii_lowercase"},
     lo : 0..len(xs), hi : 0..len(xs)]

\* str::get_mut(lo..hi): the positions of the part, given only for a range
\* between two char boundaries.
get_mut(xs, lo, hi) ==
    IF lo <= hi /\ is_char_boundary(xs, lo) /\ is_char_boundary(xs, hi)
    THEN Ok({i \in deref_mut(xs) : lo < i /\ i <= hi})
    ELSE Err("None", {})

\* The buffer after the edit: unchanged when get_mut gave None.
edit_in_place(xs, edit) ==
    LET part == get_mut(xs, edit.lo, edit.hi)
    IN  [i \in 1..Len(xs) |->
            IF part.tag # "Ok" \/ i \notin part.v THEN xs[i]
            ELSE IF edit.method = "make_ascii_uppercase"
                 THEN to_ascii_uppercase(xs[i])
                 ELSE to_ascii_lowercase(xs[i])]

clone(xs) == xs

\* clone_from without the clear() of the destination.
clone_from_no_clear(xs, rhs) == try_push_str(xs, deref(rhs)).xs

clone_from(xs, rhs) == try_push_str(clear(xs), deref(rhs)).xs

\* The type the value is (struct RawArrayString) and the type the two serde
\* impl headers name.
SelfType == "RawArrayString"

SerdeImplFor == "ArrayString"

\* Whether the serde impls are impls of the value's type.
SerdeImplemented == SerdeImplFor = SelfType

\* Serialize::serialize: the string handed to serialize_str.
serialize_body(xs) == Ok(deref(xs))

\* What serializing a RawArrayString gives: there is no impl for the type.
serialize(xs) ==
    IF SerdeImplemented THEN serialize_body(xs) ELSE Err("E0425", <<>>)

\* Visitor::visit_str, with nv the buffer new() returned.
visit_str(nv, v) ==
    LET f == from(nv, v)
    IN  IF f.tag = "Ok" THEN f ELSE Err("invalid_length", <<Len(v), capacity>>)

\* Visitor::visit_bytes, with nv the buffer new() returned.
visit_bytes(nv, v) ==
    IF ~from_utf8(v) THEN Err("invalid_value", v) ELSE visit_str(nv, v)

\* The tokens a deserializer hands to the visitor.
Tokens ==
    {[kind |-> "Str", v |-> v] : v \in Texts}
        \cup {[kind |-> "Bytes", v |-> v] : v \in SeqsUpTo(Byte, MaxBytesLen)}

\* Deserialize::deserialize: deserialize_str with the visitor.
deserialize_body(nv, tok) ==
    IF tok.kind = "Str" THEN visit_str(nv, tok.v) ELSE visit_bytes(nv, tok.v)

\* What deserializing into a RawArrayString gives: there is no impl for the
\* type.
deserialize(nv, tok) ==
    IF SerdeImplemented THEN deserialize_body(nv, tok) ELSE Err("E0425", <<>>)

---------------------------------------------------------------------------
(* The byte indices (0-based) each operation loads or stores *)

acc_new == {0}

acc_clear == {0}

acc_is_empty == {0}

\* len() copies the whole array out (let s = *array) and scans it.
acc_len == 0..(capacity - 1)

acc_deref(xs) == acc_len \cup 0..(len(xs) - 1)

acc_try_push_str(xs, s) ==
    LET n == len(xs)
    IN  acc_len \cup
        (IF Len(s) > capacity - n THEN {}
         ELSE IF Len(s) = capacity - n
         THEN n..(n + Len(s) - 1)
         ELSE n..(n + Len(s)))

acc_from(nv, s) == acc_new \cup acc_try_push_str(nv, s)

\* The possible sets: the copy *b reads all of b; before it from_utf8 reads
\* b up to the character it rejects, in steps that depend on the word size
\* and on where b lies.
acc_from_byte_string(b) ==
    IF from_utf8(b) THEN {0..(capacity - 1)}
    ELSE UNION {{Utf8Reads(b, 0, align, word) : align \in Aligns(b, word)} :
                    word \in USIZE_BYTES}

acc_serialize(xs) == IF SerdeImplemented THEN acc_deref(xs) ELSE {}

acc_deserialize(nv, tok) ==
    IF SerdeImplemented /\ from_utf8(tok.v) THEN acc_from(nv, tok.v) ELSE {}

acc_clone == 0..(capacity - 1)

acc_clone_from(xs, rhs) ==
    acc_clear \cup acc_deref(rhs) \cup acc_try_push_str(clear(xs), deref(rhs))

---------------------------------------------------------------------------
(* State                                                                   *)
(*   cap   the capacity A::CAPACITY of the instantiation                   *)
(*   val   the two values of the program, a and b: their buffers           *)
(*   out   per value, the byte of memory at xs.ptr() when that address is  *)
(*         not inside the value (capacity 0); not tracked otherwise        *)
(*   hist  per value, the texts appended with success since it was last    *)
(*         emptied, concatenated; Tainted once one of them held a NUL or   *)
(*         the view was edited in place                                    *)
(*   last  the last call: its name, its receiver, its outcome              *)
(*   acc   the byte indices the last call loaded or stored                 *)

Names == {"a", "b"}

Other(t) == IF t = "a" THEN "b" ELSE "a"

Tainted == <<-1>>

Appended(h, s) == IF h = Tainted \/ ~NulFree(s) THEN Tainted ELSE h \o s

Call(op, t, res) == [op |-> op, on |-> t, res |-> res]

\* What the byte next to a value of capacity 0 may hold; at a capacity of 1
\* or more index 0 is inside the value.
Outside == IF capacity = 0 THEN Byte ELSE {NUL}

\* The bytes next to the values after a store of b at index i: the store
\* lands next to the values of must, and next to any other value that lies
\* at the same address (values of no size may share one).
CellsAfterStore(i, b, must) ==
    {[n \in Names |->
         IF n \in hit THEN StoreOutside(i, b, out[n]) ELSE out[n]] :
        hit \in {h \in SUBSET Names : must \subseteq h}}

\* let a = RawArrayString::new(); let b = a;
\* a = RawArrayString::new(); b = a.clone(), at a capacity up to n.
Start(n) ==
    /\ cap \in 0..n
    /\ \E nv \in new : val = [t \in Names |-> clone(nv)]
    /\ out \in [Names -> Outside]
    /\ hist = [t \in Names |-> <<>>]
    /\ last = Call("new", "a", "Ok")
    /\ acc = acc_new

Init == Start(MaxCap)

New(t) ==
    /\ \E nv \in new : val' = [val EXCEPT ![t] = nv]
    /\ hist' = [hist EXCEPT ![t] = <<>>]
    /\ last' = Call("new", t, "Ok")
    /\ acc' = acc_new
    /\ out' \in CellsAfterStore(0, NUL, {})
    /\ UNCHANGED cap

\* t = RawArrayString::from(s)?  (no assignment on Err); the outcomes range
\* over what new() returned inside from.
From(t, s) ==
    \E o \in {[f |-> from(nv, s), acc |-> acc_from(nv, s)] : nv \in new} :
        /\ val' = IF o.f.tag = "Ok" THEN [val EXCEPT ![t] = o.f.v] ELSE val
        /\ hist' = IF o.f.tag = "Ok"
                   THEN [hist EXCEPT ![t] = Appended(<<>>, s)] ELSE hist
        /\ last' = Call("from", t, o.f.tag)
        /\ acc' = o.acc
        /\ out' \in CellsAfterStore(0, NUL, {})
        /\ UNCHANGED cap

\* t = RawArrayString::from_byte_string(&b)?  (no assignment on Err)
FromByteString(t, b) ==
    LET f == from_byte_string(b)
    IN  /\ val' = IF f.tag = "Ok" THEN [val EXCEPT ![t] = f.v] ELSE val
        /\ hist' = IF f.tag = "Ok"
                   THEN [hist EXCEPT ![t] = IF NulFree(b) THEN b ELSE Tainted]
                   ELSE hist
        /\ last' = Call("from_byte_string", t, f.tag)
        /\ acc' \in acc_from_byte_string(b)
        /\ UNCHANGED <<cap, out>>

Clear(t) ==
    /\ val' = [val EXCEPT ![t] = clear(val[t])]
    /\ hist' = [hist EXCEPT ![t] = <<>>]
    /\ last' = Call("clear", t, "Ok")
    /\ acc' = acc_clear
    /\ out' \in CellsAfterStore(0, NUL, {t})
    /\ UNCHANGED cap

TryPushStr(t, s) ==
    LET p == try_push_str(val[t], s)
    IN  /\ val' = [val EXCEPT ![t] = p.xs]
        /\ hist' = IF p.r.tag = "Ok"
                   THEN [hist EXCEPT ![t] = Appended(hist[t], s)] ELSE hist
        /\ last' = Call("try_push_str", t, p.r.tag)
        /\ acc' = acc_try_push_str(val[t], s)
        /\ UNCHANGED <<cap, out>>

\* push_str: try_push_str(s).unwrap()
PushStr(t, s) ==
    LET p == try_push_str(val[t], s)
    IN  /\ val' = [val EXCEPT ![t] = p.xs]
        /\ hist' = IF p.r.tag = "Ok"
                   THEN [hist EXCEPT ![t] = Appended(hist[t], s)] ELSE hist
        /\ last' = Call("push_str", t,
                        IF push_str_panics(val[t], s) THEN "panic" ELSE "Ok")
        /\ acc' = acc_try_push_str(val[t], s)
        /\ UNCHANGED <<cap, out>>

IsEmpty(t) ==
    /\ last' = Call("is_empty", t,
                    IF is_empty(val[t], out[t]) THEN "true" ELSE "false")
    /\ acc' = acc_is_empty
    /\ UNCHANGED <<cap, val, out, hist>>

LenOf(t) ==
    /\ last' = Call("len", t, "Ok")
    /\ acc' = acc_len
    /\ UNCHANGED <<cap, val, out, hist>>

Deref(t) ==
    /\ last' = Call("deref", t, "Ok")
    /\ acc' = acc_deref(val[t])
    /\ UNCHANGED <<cap, val, out, hist>>

\* The view edited in place through deref_mut.
DerefMut(t, edit) ==
    /\ val' = [val EXCEPT ![t] = edit_in_place(val[t], edit)]
    /\ hist' = IF val' = val THEN hist ELSE [hist EXCEPT ![t] = Tainted]
    /\ last' = Call("deref_mut", t, get_mut(val[t], edit.lo, edit.hi).tag)
    /\ acc' = acc_deref(val[t])
    /\ UNCHANGED <<cap, out>>

Serialize(t) ==
    /\ last' = Call("serialize", t, serialize(val[t]).tag)
    /\ acc' = acc_serialize(val[t])
    /\ UNCHANGED <<cap, val, out, hist>>

\* t = Deserialize::deserialize(tok)?  (no assignment on Err); the outcomes
\* range over what new() returned inside from.
Deserialize(t, tok) ==
    \E o \in IF SerdeImplemented
             THEN {[f |-> deserialize(nv, tok),
                    acc |-> acc_deserialize(nv, tok)] : nv \in new}
             ELSE {[f |-> Err("E0425", <<>>), acc |-> {}]} :
        /\ val' = IF o.f.tag = "Ok" THEN [val EXCEPT ![t] = o.f.v] ELSE val
        /\ hist' = IF o.f.tag = "Ok"
                   THEN [hist EXCEPT ![t] = Appended(<<>>, tok.v)] ELSE hist
        /\ last' = Call("deserialize", t, o.f.tag)
        /\ acc' = o.acc
        /\ out' \in IF SerdeImplemented
                   THEN CellsAfterStore(0, NUL, {}) ELSE {out}
        /\ UNCHANGED cap

\* t = Other(t).clone()
Clone(t) ==
    /\ val' = [val EXCEPT ![t] = clone(val[Other(t)])]
    /\ hist' = [hist EXCEPT ![t] = hist[Other(t)]]
    /\ last' = Call("clone", t, "Ok")
    /\ acc' = acc_clone
    /\ UNCHANGED <<cap, out>>

\* t.clone_from(&Other(t))
CloneFrom(t) ==
    /\ val' = [val EXCEPT ![t] = clone_from(val[t], val[Other(t)])]
    /\ hist' = [hist EXCEPT ![t] = deref(val[Other(t)])]
    /\ last' = Call("clone_from", t, "Ok")
    /\ acc' = acc_clone_from(val[t], val[Other(t)])
    /\ out' \in CellsAfterStore(0, NUL, {t})
    /\ UNCHANGED cap

\* Every operation, on one value.
Next ==
    \/ New("a")
    \/ \E s \in Texts : From("a", s)
    \/ \E b \in Arrays : FromByteString("a", b)
    \/ Clear("a")
    \/ \E s \in Texts : TryPushStr("a", s)
    \/ \E s \in Texts : PushStr("a", s)
    \/ IsEmpty("a")
    \/ LenOf("a")
    \/ Deref("a")
    \/ \E edit \in Edits(val["a"]) : DerefMut("a", edit)
    \/ Serialize("a")
    \/ \E tok \in Tokens : Deserialize("a", tok)

Spec == Init /\ [][Next]_vars

\* Two values: a constructed and appended to, each duplicated into the other.
NextDup ==
    \/ New("a")
    \/ \E s \in Texts : From("a", s)
    \/ \E b \in Arrays : FromByteString("a", b)
    \/ Clear("a")
    \/ \E s \in Texts : TryPushStr("a", s)
    \/ \E s \in Texts : PushStr("a", s)
    \/ \E t \in Names : Clone(t)
    \/ \E t \in Names : CloneFrom(t)

SpecDup == Init /\ [][NextDup]_vars

\* One value, only created, appended to and emptied, at capacities up to one
\* more than MaxCap, so that two different texts fit in either order.
InitAppend == Start(MaxCap + 1)

NextAppend ==
    \/ New("a")
    \/ Clear("a")
    \/ \E s \in Texts : TryPushStr("a", s)
    \/ \E s \in Texts : PushStr("a", s)

SpecAppend == InitAppend /\ [][NextAppend]_vars

---------------------------------------------------------------------------
(* Properties *)

\* C1: for every reachable value and every text s, try_push_str(s) returns
\* the capacity error exactly when len(s) > capacity() - len(); the error
\* then carries s itself and the buffer is byte for byte what it was.
C1_CapacityErrorExact ==
    \A s \in Texts :
        LET p == try_push_str(val["a"], s)
        IN  /\ p.r.tag \in {"Ok", "CapacityError"}
            /\ p.r.tag = "CapacityError"
                   <=> Len(s) > capacity - len(val["a"])
            /\ p.r.tag = "CapacityError"
                   => /\ p.r.v = s
                      /\ p.xs = val["a"]
                      /\ len(p.xs) = len(val["a"])
                      /\ deref(p.xs) = deref(val["a"])

\* A try_push_str on a non-empty value that is not full has just been
\* refused.
C1_Witness ==
    /\ last = Call("try_push_str", "a", "CapacityError")
    /\ len(val["a"]) > 0
    /\ len(val["a"]) < capacity

\* C2 as stated: for every reachable value and every text s, whenever
\* try_push_str(s) returns Ok, len() after the call is len() before it plus
\* the byte length of s.
C2_Original ==
    \A s \in Texts :
        LET p == try_push_str(val["a"], s)
        IN  p.r.tag = "Ok" => len(p.xs) = len(val["a"]) + Len(s)

\* C2, amended: for every reachable value and every text s that holds no NUL,
\* whenever try_push_str(s) returns Ok, len() after the call is len() before
\* it plus the byte length of s.
C2_LenAddsNulFree ==
    \A s \in Texts :
        LET p == try_push_str(val["a"], s)
        IN  p.r.tag = "Ok" /\ NulFree(s)
                => len(p.xs) = len(val["a"]) + Len(s)

\* A try_push_str of NUL-free texts has just succeeded on a value that now
\* holds at least two bytes.
C2_Witness ==
    /\ last = Call("try_push_str", "a", "Ok")
    /\ hist["a"] # Tainted
    /\ len(val["a"]) >= 2

\* C3: the text view is the concatenation, in call order, of the NUL-free
\* texts whose append succeeded since the value was last emptied (new, clear);
\* refused appends add nothing and bytes beyond the sentinel never show.
C3_ViewIsHistory ==
    \A t \in Names : hist[t] # Tainted => deref(val[t]) = hist[t]

\* An append has just succeeded after an append of a different text: the view
\* is "a" followed by the two bytes of U+00E9, and not the reverse.
C3_Witness ==
    /\ last.op \in {"try_push_str", "push_str"}
    /\ last.res = "Ok"
    /\ hist["a"] = <<97, 195, 169>>
    /\ deref(val["a"]) = <<97, 195, 169>>

\* C4: for every capacity and every NUL-free text T with len(T) <= capacity,
\* from(T) succeeds, the view of the result is T and its len() is len(T).
C4_FromRoundTrip ==
    \A s \in Texts : \A nv \in new :
        NulFree(s) /\ Len(s) <= capacity
            => LET f == from(nv, s)
               IN  /\ f.tag = "Ok"
                   /\ deref(f.v) = s
                   /\ len(f.v) = Len(s)

\* from has just built a value that fills a buffer of two or more bytes.
C4_Witness ==
    /\ last = Call("from", "a", "Ok")
    /\ hist["a"] # Tainted
    /\ capacity >= 2
    /\ deref(val["a"]) = val["a"]

\* C5: in every state reachable through new, from, from_byte_string,
\* try_push_str, push_str, clear, clone and clone_from, the bytes
\* buffer[0..len()) of each value are well-formed UTF-8.
C5_ViewIsUtf8 ==
    \A t \in Names : from_utf8(deref(val[t]))

\* An append of a two-byte character has just filled a buffer exactly.
C5_Witness ==
    /\ last.op = "try_push_str"
    /\ last.res = "Ok"
    /\ capacity >= 2
    /\ is_full(val[last.on])
    /\ val[last.on][capacity] = 169

\* C6: for every capacity, 0 included, and whatever the value held, right
\* after clear() the call is_empty() returns true and len() is 0.
C6_ClearThenEmpty ==
    last.op = "clear"
        => /\ is_empty(val[last.on], out[last.on])
           /\ len(val[last.on]) = 0

\* clear() has just emptied a value of capacity 0, the byte next to the other
\* value being other than 0.
C6_Witness ==
    /\ last = Call("clear", "a", "Ok")
    /\ capacity = 0
    /\ out["a"] = NUL
    /\ out["b"] # NUL

\* C7: after b = a.clone() and after b.clone_from(&a), whatever b held, the
\* view of b is the view of a and a is unchanged; a try_push_str, push_str or
\* clear on one value leaves the other value's buffer as it was.
C7_Duplication ==
    [][LET t == last'.on
           u == Other(last'.on)
       IN  /\ last'.op \in {"clone", "clone_from"}
               => /\ deref(val'[t]) = deref(val[u])
                  /\ val'[u] = val[u]
                  /\ deref(val'[u]) = deref(val'[t])
           /\ last'.op \in {"try_push_str", "push_str", "clear"}
               => /\ val'[u] = val[u]
                  /\ deref(val'[u]) = deref(val[u])]_vars

\* clone_from has just left the source's view in a destination whose buffer
\* differs from the source's beyond the sentinel.
C7_Witness ==
    /\ last.op = "clone_from"
    /\ capacity >= 2
    /\ val["a"] # val["b"]

\* C8 as stated: from_byte_string(b) returns the encoding error exactly when
\* b is not well-formed UTF-8, and whenever it succeeds the value has
\* len() = capacity, is_full() and the whole of b as its view.
C8_Original ==
    \A b \in Arrays :
        LET f == from_byte_string(b)
        IN  /\ f.tag = "Utf8Error" <=> ~from_utf8(b)
            /\ f.tag = "Ok"
                   => /\ len(f.v) = capacity
                      /\ is_full(f.v)
                      /\ deref(f.v) = b

\* C8, amended: from_byte_string(b) returns the encoding error exactly when b
\* is not well-formed UTF-8; whenever it succeeds the value's buffer is b, and
\* when b holds no 0 byte the value has len() = capacity, is_full() and the
\* whole of b as its view.
C8_FromByteStringNulFree ==
    \A b \in Arrays :
        LET f == from_byte_string(b)
        IN  /\ f.tag \in {"Ok", "Utf8Error"}
            /\ f.tag = "Utf8Error" <=> ~from_utf8(b)
            /\ f.tag = "Ok" => f.v = b
            /\ f.tag = "Ok" /\ NulFree(b)
                   => /\ len(f.v) = capacity
                      /\ is_full(f.v)
                      /\ deref(f.v) = b

\* from_byte_string has just built a full value ending in a two-byte
\* character.
C8_Witness ==
    /\ last = Call("from_byte_string", "a", "Ok")
    /\ capacity >= 2
    /\ is_full(val["a"])
    /\ val["a"][capacity] = 169

\* C9 as stated: encoding a value yields its view; decoding a NUL-free text
\* t with len(t) <= capacity yields a value whose view is t, so decoding what
\* was encoded gives the view back; decoding a text with len(t) > capacity
\* fails with invalid_length(len(t)) against the capacity and yields no value.
C9_SerdeRoundTrip ==
    \A nv \in new :
        /\ serialize(val["a"]) = Ok(deref(val["a"]))
        /\ \A t \in Texts :
               LET d == deserialize(nv, [kind |-> "Str", v |-> t])
               IN  /\ NulFree(t) /\ Len(t) <= capacity
                       => d.tag = "Ok" /\ deref(d.v) = t
                   /\ Len(t) > capacity
                       => d = Err("invalid_length", <<Len(t), capacity>>)

\* C10 as stated: every byte index an operation loads or stores lies in
\* 0..capacity-1; none touches index 0 of a buffer of capacity 0.
C10_AccessInBounds ==
    acc \subseteq 0..(capacity - 1)

====
